---- MODULE Spec2Model ----
(***************************************************************************)
(* The fastai text tutorial (docs_src/text.ipynb and its export            *)
(* docs/text.html) as a state machine: a kernel runs the notebook's code   *)
(* cells top to bottom against a data folder whose tmp directory holds the *)
(* preprocessing cache and whose models directory holds saved encoders.    *)
(* The notebook's statements, their order, the hidden cells and the        *)
(* captured outputs are transcribed from the two files.  The behaviour of  *)
(* the fastai calls the cells make (TextDataset, the data bunches, the     *)
(* learner) is not part of these files; it is modelled from what the       *)
(* tutorial's prose and captured outputs say about it.                     *)
(***************************************************************************)
EXTENDS Integers, Sequences, FiniteSets, TLC

(***************************************************************************)
(* Bounds of the model.                                                    *)
(***************************************************************************)
\* rows of train.csv that are read (the sample holds 1,000)
MaxRows == 2
\* top-to-bottom executions of the notebook against the same folder
MaxRuns == 2
\* re-executions of the from_df line within one kernel session
MaxReexec == 1
\* layer groups of a learner's model
NGroups == 3

(***************************************************************************)
(* The notebook, cell by cell.  A markdown cell is kept as the first 48    *)
(* characters of its text without markup and the length of that text       *)
(* (level is the heading level, 0 for a paragraph); a code cell as its     *)
(* source lines and the lines of its captured output (a rendered table:    *)
(* one line per row, cells joined by " | ").                               *)
(***************************************************************************)
NotebookCells ==
  <<
  \* cell 1, text.ipynb line 3
  [kind |-> "markdown", level |-> 1, hide |-> FALSE, text |-> "Text models, data, and training", len |-> 31,
   src |-> <<>>,
   out |-> <<>>],
  \* cell 2, text.ipynb line 10
  [kind |-> "code", level |-> 0, hide |-> TRUE, text |-> "", len |-> 0,
   src |-> <<"from fastai.gen_doc.nbdoc import *">>,
   out |-> <<>>],
  \* cell 3, text.ipynb line 21
  [kind |-> "markdown", level |-> 0, hide |-> FALSE, text |-> "The text module of the fastai library contains a", len |-> 611,
   src |-> <<>>,
   out |-> <<>>],
  \* cell 4, text.ipynb line 33
  [kind |-> "markdown", level |-> 2, hide |-> FALSE, text |-> "Quick Start: Training an IMDb sentiment model wi", len |-> 57,
   src |-> <<>>,
   out |-> <<>>],
  \* cell 5, text.ipynb line 40
  [kind |-> "markdown", level |-> 0, hide |-> FALSE, text |-> "Let's start with a quick end-to-end example of t", len |-> 276,
   src |-> <<>>,
   out |-> <<>>],
  \* cell 6, text.ipynb line 52
  [kind |-> "markdown", level |-> 3, hide |-> FALSE, text |-> "Reading and viewing the IMDb data", len |-> 33,
   src |-> <<>>,
   out |-> <<>>],
  \* cell 7, text.ipynb line 59
  [kind |-> "markdown", level |-> 0, hide |-> FALSE, text |-> "First let's import everything we need for text.", len |-> 47,
   src |-> <<>>,
   out |-> <<>>],
  \* cell 8, text.ipynb line 66
  [kind |-> "code", level |-> 0, hide |-> FALSE, text |-> "", len |-> 0,
   src |-> <<"from fastai import *", "from fastai.text import *">>,
   out |-> <<>>],
  \* cell 9, text.ipynb line 76
  [kind |-> "markdown", level |-> 0, hide |-> FALSE, text |-> "Contrary to images in Computer Vision, text can'", len |-> 1449,
   src |-> <<>>,
   out |-> <<>>],
  \* cell 10, text.ipynb line 93
  [kind |-> "code", level |-> 0, hide |-> FALSE, text |-> "", len |-> 0,
   src |-> <<"path = untar_data(URLs.IMDB_SAMPLE)", "path">>,
   out |-> <<"PosixPath('/home/ubuntu/.fastai/data/imdb_sample')">>],
  \* cell 11, text.ipynb line 114
  [kind |-> "markdown", level |-> 0, hide |-> FALSE, text |-> "Creating a dataset from your raw texts is very s", len |-> 280,
   src |-> <<>>,
   out |-> <<>>],
  \* cell 12, text.ipynb line 125
  [kind |-> "code", level |-> 0, hide |-> FALSE, text |-> "", len |-> 0,
   src |-> <<"df = pd.read_csv(path/'train.csv', header=None)", "df.head()">>,
   out |-> <<" | 0 | 1",
           "0 | 0 | Un-bleeping-believable! Meg Ryan doesn't even ...",
           "1 | 1 | This is a extremely well-made film. The acting...",
           "2 | 0 | Every once in a long while a movie will come a...",
           "3 | 1 | Name just says it all. I watched this movie wi...",
           "4 | 0 | This movie succeeds at being one of the most u...">>],
  \* cell 13, text.ipynb line 204
  [kind |-> "markdown", level |-> 0, hide |-> FALSE, text |-> "Labels are encoded (though we can tell 1 seems t", len |-> 173,
   src |-> <<>>,
   out |-> <<>>],
  \* cell 14, text.ipynb line 211
  [kind |-> "code", level |-> 0, hide |-> FALSE, text |-> "", len |-> 0,
   src |-> <<"classes = read_classes(path/'classes.txt')",
           "classes[0], classes[1]">>,
   out |-> <<"('negative', 'positive')">>],
  \* cell 15, text.ipynb line 232
  [kind |-> "markdown", level |-> 3, hide |-> FALSE, text |-> "Getting your data ready for modeling", len |-> 36,
   src |-> <<>>,
   out |-> <<>>],
  \* cell 16, text.ipynb line 239
  [kind |-> "markdown", level |-> 0, hide |-> FALSE, text |-> "To create a dataset, we can just use the TextDat", len |-> 277,
   src |-> <<>>,
   out |-> <<>>],
  \* cell 17, text.ipynb line 246
  [kind |-> "code", level |-> 0, hide |-> TRUE, text |-> "", len |-> 0,
   src |-> <<"for file in ['train_tok.npy', 'valid_tok.npy']:",
           "    if os.path.exists(path/'tmp'/file): os.remove(path/'tmp'/file)">>,
   out |-> <<>>],
  \* cell 18, text.ipynb line 258
  [kind |-> "code", level |-> 0, hide |-> FALSE, text |-> "", len |-> 0,
   src |-> <<"train_ds = TextDataset.from_df(path, df, classes=classes)">>,
   out |-> <<"Numericalizing train.">>],
  \* cell 19, text.ipynb line 275
  [kind |-> "markdown", level |-> 0, hide |-> FALSE, text |-> "Note that to avoid redoing this step (which can ", len |-> 719,
   src |-> <<>>,
   out |-> <<>>],
  \* cell 20, text.ipynb line 284
  [kind |-> "code", level |-> 0, hide |-> FALSE, text |-> "", len |-> 0,
   src |-> <<"# Language model data",
           "data_lm = TextLMDataBunch.from_csv(path)",
           "# Classifier model data",
           "data_clas = TextClasDataBunch.from_csv(path, vocab=data_lm.train_ds.vocab, bs=32)">>,
   out |-> <<"Numericalizing valid.">>],
  \* cell 21, text.ipynb line 304
  [kind |-> "markdown", level |-> 0, hide |-> FALSE, text |-> "Note that TextDataset was called behind the scen", len |-> 553,
   src |-> <<>>,
   out |-> <<>>],
  \* cell 22, text.ipynb line 313
  [kind |-> "markdown", level |-> 3, hide |-> FALSE, text |-> "Fine-tuning a language model", len |-> 28,
   src |-> <<>>,
   out |-> <<>>],
  \* cell 23, text.ipynb line 320
  [kind |-> "markdown", level |-> 0, hide |-> FALSE, text |-> "We can use the data_lm object we created earlier", len |-> 279,
   src |-> <<>>,
   out |-> <<>>],
  \* cell 24, text.ipynb line 327
  [kind |-> "code", level |-> 0, hide |-> FALSE, text |-> "", len |-> 0,
   src |-> <<"learn = RNNLearner.language_model(data_lm, pretrained_model=URLs.WT103, drop_mult=0.5)",
           "learn.fit_one_cycle(1, 1e-2)">>,
   out |-> <<"Total time: 00:18",
           "epoch  train_loss  valid_loss  accuracy",
           "1      4.725450    4.224330    0.245299  (00:18)">>],
  \* cell 25, text.ipynb line 348
  [kind |-> "markdown", level |-> 0, hide |-> FALSE, text |-> "Like a computer vision model, we can then unfree", len |-> 78,
   src |-> <<>>,
   out |-> <<>>],
  \* cell 26, text.ipynb line 355
  [kind |-> "code", level |-> 0, hide |-> FALSE, text |-> "", len |-> 0,
   src |-> <<"learn.unfreeze()", "learn.fit_one_cycle(1, 1e-3)">>,
   out |-> <<"Total time: 00:22",
           "epoch  train_loss  valid_loss  accuracy",
           "1      4.452540    4.139244    0.251466  (00:22)">>],
  \* cell 27, text.ipynb line 376
  [kind |-> "markdown", level |-> 0, hide |-> FALSE, text |-> "And finally we save the encoder to be able to us", len |-> 92,
   src |-> <<>>,
   out |-> <<>>],
  \* cell 28, text.ipynb line 383
  [kind |-> "code", level |-> 0, hide |-> FALSE, text |-> "", len |-> 0,
   src |-> <<"learn.save_encoder('ft_enc')">>,
   out |-> <<>>],
  \* cell 29, text.ipynb line 392
  [kind |-> "markdown", level |-> 3, hide |-> FALSE, text |-> "Building a classifier", len |-> 21,
   src |-> <<>>,
   out |-> <<>>],
  \* cell 30, text.ipynb line 399
  [kind |-> "markdown", level |-> 0, hide |-> FALSE, text |-> "We now use the data_clas object we created earli", len |-> 150,
   src |-> <<>>,
   out |-> <<>>],
  \* cell 31, text.ipynb line 406
  [kind |-> "code", level |-> 0, hide |-> FALSE, text |-> "", len |-> 0,
   src |-> <<"learn = RNNLearner.classifier(data_clas, drop_mult=0.5)",
           "learn.load_encoder('ft_enc')",
           "learn.fit_one_cycle(1, 1e-2)">>,
   out |-> <<"Total time: 00:24",
           "epoch  train_loss  valid_loss  accuracy",
           "1      0.612591    0.585682    0.715000  (00:24)">>],
  \* cell 32, text.ipynb line 428
  [kind |-> "markdown", level |-> 0, hide |-> FALSE, text |-> "Again, we can unfreeze the model and fine-tune i", len |-> 50,
   src |-> <<>>,
   out |-> <<>>],
  \* cell 33, text.ipynb line 435
  [kind |-> "code", level |-> 0, hide |-> FALSE, text |-> "", len |-> 0,
   src |-> <<"learn.freeze_to(-2)",
           "learn.fit_one_cycle(1, slice(5e-3/2., 5e-3))">>,
   out |-> <<"Total time: 00:28",
           "epoch  train_loss  valid_loss  accuracy",
           "1      0.545209    0.526416    0.705000  (00:28)">>],
  \* cell 34, text.ipynb line 456
  [kind |-> "code", level |-> 0, hide |-> FALSE, text |-> "", len |-> 0,
   src |-> <<"learn.unfreeze()",
           "learn.fit_one_cycle(1, slice(2e-3/100, 2e-3))">>,
   out |-> <<"Total time: 00:54",
           "epoch  train_loss  valid_loss  accuracy",
           "1      0.448358    0.569745    0.740000  (00:54)">>]
  >>

(***************************************************************************)
(* The HTML export, cell by cell, in the same form: a text cell's rendered *)
(* text, a code cell's input area and output area.  hide is TRUE for a     *)
(* code cell rendered without an input area.                               *)
(***************************************************************************)
HtmlCells ==
  <<
  \* cell 1, text.html line 12
  [kind |-> "text", level |-> 1, hide |-> FALSE, text |-> "Text models, data, and training", len |-> 31,
   src |-> <<>>,
   out |-> <<>>],
  \* cell 2, text.html line 18
  [kind |-> "code", level |-> 0, hide |-> TRUE, text |-> "", len |-> 0,
   src |-> <<>>,
   out |-> <<>>],
  \* cell 3, text.html line 21
  [kind |-> "text", level |-> 0, hide |-> FALSE, text |-> "The text module of the fastai library contains a", len |-> 611,
   src |-> <<>>,
   out |-> <<>>],
  \* cell 4, text.html line 34
  [kind |-> "text", level |-> 2, hide |-> FALSE, text |-> "Quick Start: Training an IMDb sentiment model wi", len |-> 57,
   src |-> <<>>,
   out |-> <<>>],
  \* cell 5, text.html line 40
  [kind |-> "text", level |-> 0, hide |-> FALSE, text |-> "Let's start with a quick end-to-end example of t", len |-> 276,
   src |-> <<>>,
   out |-> <<>>],
  \* cell 6, text.html line 53
  [kind |-> "text", level |-> 3, hide |-> FALSE, text |-> "Reading and viewing the IMDb data", len |-> 33,
   src |-> <<>>,
   out |-> <<>>],
  \* cell 7, text.html line 59
  [kind |-> "text", level |-> 0, hide |-> FALSE, text |-> "First let's import everything we need for text.", len |-> 47,
   src |-> <<>>,
   out |-> <<>>],
  \* cell 8, text.html line 66
  [kind |-> "code", level |-> 0, hide |-> FALSE, text |-> "", len |-> 0,
   src |-> <<"from fastai import *", "from fastai.text import *">>,
   out |-> <<>>],
  \* cell 9, text.html line 80
  [kind |-> "text", level |-> 0, hide |-> FALSE, text |-> "Contrary to images in Computer Vision, text can'", len |-> 1449,
   src |-> <<>>,
   out |-> <<>>],
  \* cell 10, text.html line 95
  [kind |-> "code", level |-> 0, hide |-> FALSE, text |-> "", len |-> 0,
   src |-> <<"path = untar_data(URLs.IMDB_SAMPLE)", "path">>,
   out |-> <<"PosixPath('/home/ubuntu/.fastai/data/imdb_sample')">>],
  \* cell 11, text.html line 125
  [kind |-> "text", level |-> 0, hide |-> FALSE, text |-> "Creating a dataset from your raw texts is very s", len |-> 280,
   src |-> <<>>,
   out |-> <<>>],
  \* cell 12, text.html line 137
  [kind |-> "code", level |-> 0, hide |-> FALSE, text |-> "", len |-> 0,
   src |-> <<"df = pd.read_csv(path/'train.csv', header=None)", "df.head()">>,
   out |-> <<" | 0 | 1",
           "0 | 0 | Un-bleeping-believable! Meg Ryan doesn't even ...",
           "1 | 1 | This is a extremely well-made film. The acting...",
           "2 | 0 | Every once in a long while a movie will come a...",
           "3 | 1 | Name just says it all. I watched this movie wi...",
           "4 | 0 | This movie succeeds at being one of the most u...">>],
  \* cell 13, text.html line 216
  [kind |-> "text", level |-> 0, hide |-> FALSE, text |-> "Labels are encoded (though we can tell 1 seems t", len |-> 173,
   src |-> <<>>,
   out |-> <<>>],
  \* cell 14, text.html line 223
  [kind |-> "code", level |-> 0, hide |-> FALSE, text |-> "", len |-> 0,
   src |-> <<"classes = read_classes(path/'classes.txt')",
           "classes[0], classes[1]">>,
   out |-> <<"('negative', 'positive')">>],
  \* cell 15, text.html line 253
  [kind |-> "text", level |-> 3, hide |-> FALSE, text |-> "Getting your data ready for modeling", len |-> 36,
   src |-> <<>>,
   out |-> <<>>],
  \* cell 16, text.html line 259
  [kind |-> "text", level |-> 0, hide |-> FALSE, text |-> "To create a dataset, we can just use the TextDat", len |-> 277,
   src |-> <<>>,
   out |-> <<>>],
  \* cell 17, text.html line 266
  [kind |-> "code", level |-> 0, hide |-> TRUE, text |-> "", len |-> 0,
   src |-> <<>>,
   out |-> <<>>],
  \* cell 18, text.html line 269
  [kind |-> "code", level |-> 0, hide |-> FALSE, text |-> "", len |-> 0,
   src |-> <<"train_ds = TextDataset.from_df(path, df, classes=classes)">>,
   out |-> <<"Numericalizing train.">>],
  \* cell 19, text.html line 296
  [kind |-> "text", level |-> 0, hide |-> FALSE, text |-> "Note that to avoid redoing this step (which can ", len |-> 719,
   src |-> <<>>,
   out |-> <<>>],
  \* cell 20, text.html line 304
  [kind |-> "code", level |-> 0, hide |-> FALSE, text |-> "", len |-> 0,
   src |-> <<"# Language model data",
           "data_lm = TextLMDataBunch.from_csv(path)",
           "# Classifier model data",
           "data_clas = TextClasDataBunch.from_csv(path, vocab=data_lm.train_ds.vocab, bs=32)">>,
   out |-> <<"Numericalizing valid.">>],
  \* cell 21, text.html line 334
  [kind |-> "text", level |-> 0, hide |-> FALSE, text |-> "Note that TextDataset was called behind the scen", len |-> 553,
   src |-> <<>>,
   out |-> <<>>],
  \* cell 22, text.html line 342
  [kind |-> "text", level |-> 3, hide |-> FALSE, text |-> "Fine-tuning a language model", len |-> 28,
   src |-> <<>>,
   out |-> <<>>],
  \* cell 23, text.html line 348
  [kind |-> "text", level |-> 0, hide |-> FALSE, text |-> "We can use the data_lm object we created earlier", len |-> 279,
   src |-> <<>>,
   out |-> <<>>],
  \* cell 24, text.html line 355
  [kind |-> "code", level |-> 0, hide |-> FALSE, text |-> "", len |-> 0,
   src |-> <<"learn = RNNLearner.language_model(data_lm, pretrained_model=URLs.WT103, drop_mult=0.5)",
           "learn.fit_one_cycle(1, 1e-2)">>,
   out |-> <<"Total time: 00:18",
           "epoch  train_loss  valid_loss  accuracy",
           "1      4.725450    4.224330    0.245299  (00:18)">>],
  \* cell 25, text.html line 386
  [kind |-> "text", level |-> 0, hide |-> FALSE, text |-> "Like a computer vision model, we can then unfree", len |-> 78,
   src |-> <<>>,
   out |-> <<>>],
  \* cell 26, text.html line 393
  [kind |-> "code", level |-> 0, hide |-> FALSE, text |-> "", len |-> 0,
   src |-> <<"learn.unfreeze()", "learn.fit_one_cycle(1, 1e-3)">>,
   out |-> <<"Total time: 00:22",
           "epoch  train_loss  valid_loss  accuracy",
           "1      4.452540    4.139244    0.251466  (00:22)">>],
  \* cell 27, text.html line 424
  [kind |-> "text", level |-> 0, hide |-> FALSE, text |-> "And finally we save the encoder to be able to us", len |-> 92,
   src |-> <<>>,
   out |-> <<>>],
  \* cell 28, text.html line 431
  [kind |-> "code", level |-> 0, hide |-> FALSE, text |-> "", len |-> 0,
   src |-> <<"learn.save_encoder('ft_enc')">>,
   out |-> <<>>],
  \* cell 29, text.html line 444
  [kind |-> "text", level |-> 3, hide |-> FALSE, text |-> "Building a classifier", len |-> 21,
   src |-> <<>>,
   out |-> <<>>],
  \* cell 30, text.html line 450
  [kind |-> "text", level |-> 0, hide |-> FALSE, text |-> "We now use the data_clas object we created earli", len |-> 150,
   src |-> <<>>,
   out |-> <<>>],
  \* cell 31, text.html line 457
  [kind |-> "code", level |-> 0, hide |-> FALSE, text |-> "", len |-> 0,
   src |-> <<"learn = RNNLearner.classifier(data_clas, drop_mult=0.5)",
           "learn.load_encoder('ft_enc')",
           "learn.fit_one_cycle(1, 1e-2)">>,
   out |-> <<"Total time: 00:24",
           "epoch  train_loss  valid_loss  accuracy",
           "1      0.612591    0.585682    0.715000  (00:24)">>],
  \* cell 32, text.html line 489
  [kind |-> "text", level |-> 0, hide |-> FALSE, text |-> "Again, we can unfreeze the model and fine-tune i", len |-> 50,
   src |-> <<>>,
   out |-> <<>>],
  \* cell 33, text.html line 496
  [kind |-> "code", level |-> 0, hide |-> FALSE, text |-> "", len |-> 0,
   src |-> <<"learn.freeze_to(-2)",
           "learn.fit_one_cycle(1, slice(5e-3/2., 5e-3))">>,
   out |-> <<"Total time: 00:28",
           "epoch  train_loss  valid_loss  accuracy",
           "1      0.545209    0.526416    0.705000  (00:28)">>],
  \* cell 34, text.html line 527
  [kind |-> "code", level |-> 0, hide |-> FALSE, text |-> "", len |-> 0,
   src |-> <<"learn.unfreeze()",
           "learn.fit_one_cycle(1, slice(2e-3/100, 2e-3))">>,
   out |-> <<"Total time: 00:54",
           "epoch  train_loss  valid_loss  accuracy",
           "1      0.448358    0.569745    0.740000  (00:54)">>]
  >>

(***************************************************************************)
(* The four steps the quick start announces, in the order of its list.     *)
(***************************************************************************)
StepList ==
  <<"Reading and viewing the IMDb data",
    "Getting your data ready for modeling",
    "Fine-tuning a language model",
    "Building a classifier">>

Range(s) == {s[i] : i \in DOMAIN s}

\* s with the elements at positions i and j exchanged
Swap(s, i, j) ==
  [k \in DOMAIN s |-> IF k = i THEN s[j] ELSE IF k = j THEN s[i] ELSE s[k]]

\* s with element i replaced by e
Put(s, i, e) == [s EXCEPT ![i] = e]

(***************************************************************************)
(* Variants of the notebook with one slip each, used to test that the      *)
(* properties below depend on the notebook's text.                         *)
(***************************************************************************)
\* the from_df cell (18) placed after the from_csv cell (20)
CellsFromDfLate == Swap(NotebookCells, 18, 20)

\* save_encoder (28) placed before the unfreeze-and-fit cell (26)
CellsSaveEarly == Swap(NotebookCells, 26, 28)

\* the two last classifier cells exchanged: unfreeze (34) before freeze_to(-2) (33)
CellsUnfreezeFirst == Swap(NotebookCells, 33, 34)

\* save_encoder (28) placed below the heading "Building a classifier" (29)
CellsSaveUnderClassifier == Swap(NotebookCells, 28, 29)

\* the captured output of the from_csv cell (20) lost
CellsOutputLost == Put(NotebookCells, 20, [NotebookCells[20] EXCEPT !.out = <<>>])

\* the read_classes cell (14) placed after the from_df cell (18)
CellsClassesLate == Swap(NotebookCells, 14, 18)

\* the hidden cleanup cell (17) left empty: the token files stay in tmp
CellsNoCleanup == Put(NotebookCells, 17, [NotebookCells[17] EXCEPT !.src = <<>>])

\* the two lines of the language model's unfreeze cell (26) exchanged: fit, then unfreeze
CellsFitBeforeUnfreeze ==
  Put(NotebookCells, 26, [NotebookCells[26] EXCEPT !.src = <<@[2], @[1]>>])

\* The cells the kernel runs.
Cells == NotebookCells

(***************************************************************************)
(* A source line as a statement: op is the call it makes, n its integer    *)
(* argument (epochs of fit_one_cycle, index of freeze_to), name its string *)
(* argument, files the file list of the cleanup loop.  A comment and the   *)
(* body line of the cleanup loop are no statements of their own.           *)
(***************************************************************************)
St(op, n, name, files) == [op |-> op, n |-> n, name |-> name, files |-> files]

Stmt(line) ==
  CASE line = "from fastai.gen_doc.nbdoc import *" -> St("import", 0, "fastai.gen_doc.nbdoc", <<>>)
    [] line = "from fastai import *" -> St("import", 0, "fastai", <<>>)
    [] line = "from fastai.text import *" -> St("import", 0, "fastai.text", <<>>)
    [] line = "path = untar_data(URLs.IMDB_SAMPLE)" -> St("untar_data", 0, "IMDB_SAMPLE", <<>>)
    [] line = "path" -> St("display", 0, "path", <<>>)
    [] line = "df = pd.read_csv(path/'train.csv', header=None)" -> St("read_csv", 0, "train.csv", <<>>)
    [] line = "df.head()" -> St("display", 0, "df", <<>>)
    [] line = "classes = read_classes(path/'classes.txt')" -> St("read_classes", 0, "classes.txt", <<>>)
    [] line = "classes[0], classes[1]" -> St("display", 0, "classes", <<>>)
    [] line = "for file in ['train_tok.npy', 'valid_tok.npy']:"
         -> St("cleanup", 0, "tmp", <<"train_tok.npy", "valid_tok.npy">>)
    [] line = "    if os.path.exists(path/'tmp'/file): os.remove(path/'tmp'/file)"
         -> St("skip", 0, "", <<>>)
    [] line = "train_ds = TextDataset.from_df(path, df, classes=classes)" -> St("from_df", 0, "train", <<>>)
    [] line = "# Language model data" -> St("skip", 0, "", <<>>)
    [] line = "data_lm = TextLMDataBunch.from_csv(path)" -> St("lm_from_csv", 0, "", <<>>)
    [] line = "# Classifier model data" -> St("skip", 0, "", <<>>)
    [] line = "data_clas = TextClasDataBunch.from_csv(path, vocab=data_lm.train_ds.vocab, bs=32)"
         -> St("clas_from_csv", 32, "", <<>>)
    [] line = "learn = RNNLearner.language_model(data_lm, pretrained_model=URLs.WT103, drop_mult=0.5)"
         -> St("language_model", 0, "WT103", <<>>)
    [] line = "learn.fit_one_cycle(1, 1e-2)" -> St("fit_one_cycle", 1, "", <<>>)
    [] line = "learn.fit_one_cycle(1, 1e-3)" -> St("fit_one_cycle", 1, "", <<>>)
    [] line = "learn.fit_one_cycle(1, slice(5e-3/2., 5e-3))" -> St("fit_one_cycle", 1, "", <<>>)
    [] line = "learn.fit_one_cycle(1, slice(2e-3/100, 2e-3))" -> St("fit_one_cycle", 1, "", <<>>)
    [] line = "learn.unfreeze()" -> St("unfreeze", 0, "", <<>>)
    [] line = "learn.save_encoder('ft_enc')" -> St("save_encoder", 0, "ft_enc", <<>>)
    [] line = "learn = RNNLearner.classifier(data_clas, drop_mult=0.5)" -> St("classifier", 0, "", <<>>)
    [] line = "learn.load_encoder('ft_enc')" -> St("load_encoder", 0, "ft_enc", <<>>)
    [] line = "learn.freeze_to(-2)" -> St("freeze_to", -2, "", <<>>)

\* The statements of code cell c, in the order of its lines.
StmtsOfCell(c) ==
  SelectSeq([i \in DOMAIN Cells[c].src |-> [cell |-> c, st |-> Stmt(Cells[c].src[i])]],
            LAMBDA s : s.st.op # "skip")

\* The places of the statements: <<cell, k>> is statement k of code cell `cell`.
Places ==
  UNION { {<<c, k>> : k \in 1..Len(StmtsOfCell(c))} :
          c \in {d \in DOMAIN Cells : Cells[d].kind = "code"} }

Before(p, q) == p[1] < q[1] \/ (p[1] = q[1] /\ p[2] < q[2])

\* The statements of the notebook in the order a top-to-bottom run executes them.
Program ==
  [i \in 1..Cardinality(Places) |->
     LET p == CHOOSE q \in Places : Cardinality({r \in Places : Before(r, q)}) = i - 1
     IN  StmtsOfCell(p[1])[p[2]]]

\* The level-3 headings of the notebook, in document order.
Headings ==
  LET hs == SelectSeq(Cells, LAMBDA x : x.kind = "markdown" /\ x.level = 3)
  IN  [i \in DOMAIN hs |-> hs[i].text]

\* The section cell c stands in: 0 before the first step's heading.
Section(c) ==
  Cardinality({d \in 1..c : Cells[d].kind = "markdown" /\ Cells[d].level = 3})

(***************************************************************************)
(* The data folder.  A row of a csv file is a label and a raw text; a raw  *)
(* text is a sequence of words and blanks.  The rows are those df.head()   *)
(* displays (rows 0, 1 and 4), each cut to its first three words.          *)
(***************************************************************************)
HeadRows ==
  { [label |-> 0, text |-> <<"Un-bleeping-believable!", " ", "Meg", " ", "Ryan">>],
    [label |-> 1, text |-> <<"This", " ", "is", " ", "a">>],
    [label |-> 0, text |-> <<"This", " ", "movie", " ", "succeeds">>] }

\* what train.csv and valid.csv may hold
TrainInputs == [1..MaxRows -> HeadRows]

ValidInputs == {<<r>> : r \in HeadRows}

\* classes.txt, as displayed by classes[0], classes[1]
ClassesTxt == <<"negative", "positive">>

\* The files of the tmp directory.
TokFile(name) == IF name = "train" THEN "train_tok.npy" ELSE "valid_tok.npy"

LblFile(name) == IF name = "train" THEN "train_lbl.npy" ELSE "valid_lbl.npy"

IdFile(name) == IF name = "train" THEN "train_id.npy" ELSE "valid_id.npy"

ItosFile == "itos.pkl"

Files == {TokFile("train"), LblFile("train"), IdFile("train"),
          TokFile("valid"), LblFile("valid"), IdFile("valid"), ItosFile}

NoFile == [exists |-> FALSE, data |-> <<>>]

File(d) == [exists |-> TRUE, data |-> d]

(***************************************************************************)
(* Preprocessing: tokenization splits a raw text into its words,           *)
(* numericalization maps each token to its id in the dictionary (itos, the *)
(* list of words by id; ids count from 0 and id 0 is the unknown word).    *)
(***************************************************************************)
RECURSIVE Tokenize(_)
Tokenize(text) ==
  IF text = <<>> THEN <<>>
  ELSE IF Head(text) = " " THEN Tokenize(Tail(text))
  ELSE <<Head(text)>> \o Tokenize(Tail(text))

TokenizeAll(rows) == [i \in DOMAIN rows |-> Tokenize(rows[i].text)]

RECURSIVE Distinct(_, _)
Distinct(s, acc) ==
  IF s = <<>> THEN acc
  ELSE Distinct(Tail(s), IF Head(s) \in Range(acc) THEN acc ELSE Append(acc, Head(s)))

RECURSIVE Concat(_)
Concat(ss) == IF ss = <<>> THEN <<>> ELSE Head(ss) \o Concat(Tail(ss))

\* the dictionary built from a dataset's tokens
CreateVocab(toks) == Distinct(Concat(toks), <<"xxunk">>)

IdOf(tok, itos) ==
  IF \E j \in DOMAIN itos : itos[j] = tok
  THEN (CHOOSE j \in DOMAIN itos : itos[j] = tok /\ \A k \in 1..(j - 1) : itos[k] # tok) - 1
  ELSE 0

Numericalize(tokens, itos) == [i \in DOMAIN tokens |-> IdOf(tokens[i], itos)]

NumericalizeAll(toks, itos) == [i \in DOMAIN toks |-> Numericalize(toks[i], itos)]

Labels(rows) == [i \in DOMAIN rows |-> rows[i].label]

\* a vocab argument: none given, or the dictionary to use
NoVocab == [given |-> FALSE, itos |-> <<>>]

GivenVocab(itos) == [given |-> TRUE, itos |-> itos]

\* The dataset is stored when its tokens, labels, ids and the dictionary are in tmp.
Stored(files, name) ==
  /\ files[TokFile(name)].exists
  /\ files[LblFile(name)].exists
  /\ files[IdFile(name)].exists
  /\ files[ItosFile].exists

\* A variant that never uses what is stored.
StoredNever(files, name) == FALSE

\* whether a call finds the dataset stored, and loads it
CacheHit(files, name) == Stored(files, name)

\* A variant of the second preprocessing step that numericalizes nothing.
NumericalizeNone(toks, itos) == <<>>

\* the second preprocessing step
NumericalizeStep(toks, itos) == NumericalizeAll(toks, itos)

(***************************************************************************)
(* TextDataset for the dataset `name` with rows `rows`: loads what tmp     *)
(* holds when the dataset is stored, and otherwise preprocesses it         *)
(* (tokenization, then numericalization) and stores the result.  Gives the *)
(* dataset, the tmp directory afterwards, whether it preprocessed, and     *)
(* what it printed.                                                        *)
(***************************************************************************)
TextDataset(files, name, rows, vocab, cls) ==
  LET hit  == CacheHit(files, name)
      toks == IF hit THEN files[TokFile(name)].data ELSE TokenizeAll(rows)
      itos == IF vocab.given THEN vocab.itos
              ELSE IF hit THEN files[ItosFile].data
              ELSE CreateVocab(toks)
      ids  == IF hit THEN files[IdFile(name)].data ELSE NumericalizeStep(toks, itos)
      lbls == IF hit THEN files[LblFile(name)].data ELSE Labels(rows)
  IN  [ds  |-> [name |-> name, vocab |-> itos, ids |-> ids, labels |-> lbls, classes |-> cls],
       fs  |-> IF hit THEN files
               ELSE [f \in Files |->
                       IF f = TokFile(name) THEN File(toks)
                       ELSE IF f = LblFile(name) THEN File(lbls)
                       ELSE IF f = IdFile(name) THEN File(ids)
                       ELSE IF f = ItosFile /\ ~vocab.given THEN File(itos)
                       ELSE files[f]],
       preprocessed |-> ~hit,
       out |-> IF hit THEN <<>>
               ELSE <<IF name = "train" THEN "Numericalizing train." ELSE "Numericalizing valid.">>]

NoDataset == [name |-> "", vocab |-> <<>>, ids |-> <<>>, labels |-> <<>>, classes |-> <<>>]

NoData == [kind |-> "none", train |-> NoDataset, valid |-> NoDataset]

\* what an earlier execution on the same csv files left in file f
CachedFile(f, train, valid) ==
  LET itos == CreateVocab(TokenizeAll(train))
      rows == IF f \in {TokFile("train"), LblFile("train"), IdFile("train")} THEN train ELSE valid
  IN  IF f = ItosFile THEN File(itos)
      ELSE IF f \in {TokFile("train"), TokFile("valid")} THEN File(TokenizeAll(rows))
      ELSE IF f \in {LblFile("train"), LblFile("valid")} THEN File(Labels(rows))
      ELSE File(NumericalizeAll(TokenizeAll(rows), itos))

(***************************************************************************)
(* The learner: its layer groups 1..NGroups, of which `trainable` are not  *)
(* frozen, and its encoder, kept as the history of what made its weights.  *)
(***************************************************************************)
Groups == 1..NGroups

\* freeze_to(n) freezes layer_groups[:n] and makes layer_groups[n:] trainable
FreezeTo(n) ==
  LET k == IF n < 0 THEN (IF NGroups + n < 0 THEN 0 ELSE NGroups + n)
           ELSE (IF n > NGroups THEN NGroups ELSE n)
  IN  (k + 1)..NGroups

\* The state of a learner before the tutorial unfreezes it.  The library that
\* creates the learner is not part of the sources; the tutorial only says of
\* both learners that "we can then unfreeze the model" after the first fit
\* (text.ipynb lines 352 and 432), and its first fits are its shortest
\* (00:18 before 00:22, 00:24 before 00:28 and 00:54).  Frozen is taken in the
\* library's sense of freeze(): every layer group but the last is frozen.
Frozen == FreezeTo(-1)

Weights(what, r, tr) == [what |-> what, run |-> r, trainable |-> tr]

NoLearner == [kind |-> "none", trainable |-> {}, enc |-> <<>>]

NoEncoder == [exists |-> FALSE, enc |-> <<>>]

Names == {"path", "df", "classes", "file", "train_ds", "data_lm", "data_clas", "learn"}

(***************************************************************************)
(* State.                                                                  *)
(***************************************************************************)
VARIABLES
  pc,         \* the statement of Program the kernel executes next
  run,        \* which top-to-bottom execution this is
  reexec,     \* re-executions of the from_df line in this kernel session
  trainCsv,   \* the rows of train.csv
  validCsv,   \* the rows of valid.csv
  fs,         \* the tmp directory: file name -> [exists, data]
  models,     \* the models directory: the saved encoder 'ft_enc'
  ns,         \* the names bound in the kernel
  df, classes, train_ds, data_lm, data_clas, learn,   \* their values
  stdout,     \* what the cells printed: [run, cell, text, epoch]
  calls       \* the library calls made so far, in order

vars == <<pc, run, reexec, trainCsv, validCsv, fs, models, ns,
          df, classes, train_ds, data_lm, data_clas, learn, stdout, calls>>

\* an encoder file left by an earlier session
StaleEncoder == [exists |-> TRUE, enc |-> <<Weights("WT103", 0, {})>>]

Init ==
  /\ pc = 1
  /\ run = 1
  /\ reexec = 0
  /\ trainCsv \in TrainInputs
  /\ validCsv \in ValidInputs
  /\ \E present \in SUBSET Files :
       fs = [f \in Files |-> IF f \in present THEN CachedFile(f, trainCsv, validCsv) ELSE NoFile]
  /\ models \in {NoEncoder, StaleEncoder}
  /\ ns = {}
  /\ df = <<>>
  /\ classes = <<>>
  /\ train_ds = NoDataset
  /\ data_lm = NoData
  /\ data_clas = NoData
  /\ learn = NoLearner
  /\ stdout = <<>>
  /\ calls = <<>>

Running == pc <= Len(Program)

Cur == Program[pc]

At(op) == Running /\ Cur.st.op = op

\* a library call as it is logged
Call(what, cell, name, hit, pre, tr) ==
  [what |-> what, cell |-> cell, run |-> run, name |-> name,
   stored |-> hit, preprocessed |-> pre, trainable |-> tr]

DatasetCall(what, cell, name, files, r) ==
  Call(what, cell, name, Stored(files, name), r.preprocessed, {})

Printed(cell, lines) == [i \in DOMAIN lines |-> [run |-> run, cell |-> cell, text |-> lines[i], epoch |-> 0]]

(***************************************************************************)
(* The statements.                                                         *)
(***************************************************************************)
Import ==
  /\ At("import")
  /\ pc' = pc + 1
  /\ ns' = ns \cup {Cur.st.name}
  /\ UNCHANGED <<run, reexec, trainCsv, validCsv, fs, models,
                 df, classes, train_ds, data_lm, data_clas, learn, stdout, calls>>

UntarData ==
  /\ At("untar_data")
  /\ pc' = pc + 1
  /\ ns' = ns \cup {"path"}
  /\ UNCHANGED <<run, reexec, trainCsv, validCsv, fs, models,
                 df, classes, train_ds, data_lm, data_clas, learn, stdout, calls>>

\* a bare expression ending a cell: its value is shown, nothing changes
Display ==
  /\ At("display")
  /\ pc' = pc + 1
  /\ UNCHANGED <<run, reexec, trainCsv, validCsv, fs, models, ns,
                 df, classes, train_ds, data_lm, data_clas, learn, stdout, calls>>

ReadCsv ==
  /\ At("read_csv")
  /\ pc' = pc + 1
  /\ df' = trainCsv
  /\ ns' = ns \cup {"df"}
  /\ UNCHANGED <<run, reexec, trainCsv, validCsv, fs, models,
                 classes, train_ds, data_lm, data_clas, learn, stdout, calls>>

ReadClasses ==
  /\ At("read_classes")
  /\ pc' = pc + 1
  /\ classes' = ClassesTxt
  /\ ns' = ns \cup {"classes"}
  /\ UNCHANGED <<run, reexec, trainCsv, validCsv, fs, models,
                 df, train_ds, data_lm, data_clas, learn, stdout, calls>>

\* a cleanup that empties the tmp directory instead of removing the two token files
CleanupAll ==
  /\ At("cleanup")
  /\ pc' = pc + 1
  /\ fs' = [f \in Files |-> NoFile]
  /\ ns' = ns \cup {"file"}
  /\ UNCHANGED <<run, reexec, trainCsv, validCsv, models,
                 df, classes, train_ds, data_lm, data_clas, learn, stdout, calls>>

\* for file in [...]: if os.path.exists(path/'tmp'/file): os.remove(path/'tmp'/file)
\* the loop variable `file` stays bound after the cell
Cleanup ==
  /\ At("cleanup")
  /\ pc' = pc + 1
  /\ fs' = [f \in Files |-> IF f \in Range(Cur.st.files) /\ fs[f].exists THEN NoFile ELSE fs[f]]
  /\ ns' = ns \cup {"file"}
  /\ UNCHANGED <<run, reexec, trainCsv, validCsv, models,
                 df, classes, train_ds, data_lm, data_clas, learn, stdout, calls>>

\* train_ds = TextDataset.from_df(path, df, classes=classes), run by the cell `cell`
FromDfCall(cell) ==
  LET r == TextDataset(fs, "train", df, NoVocab, classes)
  IN  /\ train_ds' = r.ds
      /\ fs' = r.fs
      /\ ns' = ns \cup {"train_ds"}
      /\ calls' = Append(calls, DatasetCall("from_df", cell, "train", fs, r))
      /\ stdout' = stdout \o Printed(cell, r.out)

FromDf ==
  /\ At("from_df")
  /\ pc' = pc + 1
  /\ FromDfCall(Cur.cell)
  /\ UNCHANGED <<run, reexec, trainCsv, validCsv, models,
                 df, classes, data_lm, data_clas, learn>>

\* The from_df line executed again in the same kernel session, once the kernel
\* is idle (a cell executed during a run is queued behind the run's cells).
ReexecuteFromDf ==
  /\ ~Running
  /\ reexec < MaxReexec
  /\ {"path", "df", "classes", "train_ds"} \subseteq ns
  /\ \E i \in DOMAIN Program :
       /\ Program[i].st.op = "from_df"
       /\ FromDfCall(Program[i].cell)
  /\ reexec' = reexec + 1
  /\ UNCHANGED <<pc, run, trainCsv, validCsv, models,
                 df, classes, data_lm, data_clas, learn>>

\* from_csv(path, vocab=...): TextDataset for train.csv, then for valid.csv
\* with the training set's dictionary
FromCsv(kind, cell, vocab) ==
  LET tr == TextDataset(fs, "train", trainCsv, vocab, <<>>)
      va == TextDataset(tr.fs, "valid", validCsv, GivenVocab(tr.ds.vocab), <<>>)
  IN  [data  |-> [kind |-> kind, train |-> tr.ds, valid |-> va.ds],
       fs    |-> va.fs,
       calls |-> <<DatasetCall(kind, cell, "train", fs, tr),
                   DatasetCall(kind, cell, "valid", tr.fs, va)>>,
       out   |-> tr.out \o va.out]

LmFromCsv ==
  /\ At("lm_from_csv")
  /\ pc' = pc + 1
  /\ LET r == FromCsv("lm_from_csv", Cur.cell, NoVocab)
     IN  /\ data_lm' = r.data
         /\ fs' = r.fs
         /\ calls' = calls \o r.calls
         /\ stdout' = stdout \o Printed(Cur.cell, r.out)
  /\ ns' = ns \cup {"data_lm"}
  /\ UNCHANGED <<run, reexec, trainCsv, validCsv, models,
                 df, classes, train_ds, data_clas, learn>>

\* A variant that passes the class names for the dictionary.
ClasVocabArgClasses == classes

\* the vocab argument of the classifier data: data_lm.train_ds.vocab
ClasVocabArg == data_lm.train.vocab

ClasFromCsv ==
  /\ At("clas_from_csv")
  /\ pc' = pc + 1
  /\ LET r == FromCsv("clas_from_csv", Cur.cell, GivenVocab(ClasVocabArg))
     IN  /\ data_clas' = r.data
         /\ fs' = r.fs
         /\ calls' = calls \o r.calls
         /\ stdout' = stdout \o Printed(Cur.cell, r.out)
  /\ ns' = ns \cup {"data_clas"}
  /\ UNCHANGED <<run, reexec, trainCsv, validCsv, models,
                 df, classes, train_ds, data_lm, learn>>

\* RNNLearner.language_model(data_lm, pretrained_model=URLs.WT103): the
\* pretrained weights are loaded and the learner is frozen (the frozen state
\* is the library's, see Frozen; the notebook line shows only the call)
LanguageModel ==
  /\ At("language_model")
  /\ pc' = pc + 1
  /\ learn' = [kind |-> "lm", trainable |-> Frozen,
               enc |-> <<Weights(Cur.st.name, run, {})>>]
  /\ ns' = ns \cup {"learn"}
  /\ UNCHANGED <<run, reexec, trainCsv, validCsv, fs, models,
                 df, classes, train_ds, data_lm, data_clas, stdout, calls>>

\* RNNLearner.classifier(data_clas): a new model, frozen up to its last group
\* when it is first fitted (the frozen state is the library's, see Frozen; the
\* notebook line shows only the call)
Classifier ==
  /\ At("classifier")
  /\ pc' = pc + 1
  /\ learn' = [kind |-> "clas", trainable |-> Frozen,
               enc |-> <<Weights("random", run, {})>>]
  /\ ns' = ns \cup {"learn"}
  /\ UNCHANGED <<run, reexec, trainCsv, validCsv, fs, models,
                 df, classes, train_ds, data_lm, data_clas, stdout, calls>>

\* a log whose epoch numbers continue from the fits the run has made before
FitLogContinuing(cell, epochs) ==
  LET done == Len(SelectSeq(calls, LAMBDA c : c.run = run /\ c.what = "fit"))
  IN  <<[run |-> run, cell |-> cell, text |-> "Total time", epoch |-> 0],
          [run |-> run, cell |-> cell, text |-> "epoch  train_loss  valid_loss  accuracy", epoch |-> 0]>>
        \o [e \in 1..epochs |-> [run |-> run, cell |-> cell, text |-> "row", epoch |-> done + e]]

\* the log of one fit: the total time, the header, then one row per epoch
\* (the duration and the figures of a row are not modelled)
FitLog(cell, epochs) ==
  <<[run |-> run, cell |-> cell, text |-> "Total time", epoch |-> 0],
    [run |-> run, cell |-> cell, text |-> "epoch  train_loss  valid_loss  accuracy", epoch |-> 0]>>
    \o [e \in 1..epochs |-> [run |-> run, cell |-> cell, text |-> "row", epoch |-> e]]

\* learn.fit_one_cycle(n, lr): trains the groups that are not frozen
FitOneCycle ==
  /\ At("fit_one_cycle")
  /\ pc' = pc + 1
  /\ learn' = [learn EXCEPT !.enc = Append(@, Weights("fit", run, learn.trainable))]
  /\ calls' = Append(calls, Call("fit", Cur.cell, learn.kind, FALSE, FALSE, learn.trainable))
  /\ stdout' = stdout \o FitLog(Cur.cell, Cur.st.n)
  /\ UNCHANGED <<run, reexec, trainCsv, validCsv, fs, models, ns,
                 df, classes, train_ds, data_lm, data_clas>>

\* learn.unfreeze(): every layer group becomes trainable
Unfreeze ==
  /\ At("unfreeze")
  /\ pc' = pc + 1
  /\ learn' = [learn EXCEPT !.trainable = FreezeTo(0)]
  /\ calls' = Append(calls, Call("unfreeze", Cur.cell, learn.kind, FALSE, FALSE, FreezeTo(0)))
  /\ UNCHANGED <<run, reexec, trainCsv, validCsv, fs, models, ns,
                 df, classes, train_ds, data_lm, data_clas, stdout>>

\* learn.freeze_to(n): only the layer groups from n on stay trainable
FreezeToStmt ==
  /\ At("freeze_to")
  /\ pc' = pc + 1
  /\ learn' = [learn EXCEPT !.trainable = FreezeTo(Cur.st.n)]
  /\ calls' = Append(calls, Call("freeze_to", Cur.cell, learn.kind, FALSE, FALSE, FreezeTo(Cur.st.n)))
  /\ UNCHANGED <<run, reexec, trainCsv, validCsv, fs, models, ns,
                 df, classes, train_ds, data_lm, data_clas, stdout>>

\* learn.save_encoder('ft_enc'): writes the learner's encoder to models
SaveEncoder ==
  /\ At("save_encoder")
  /\ pc' = pc + 1
  /\ models' = [exists |-> TRUE, enc |-> learn.enc]
  /\ calls' = Append(calls, Call("save_encoder", Cur.cell, learn.kind, models.exists, FALSE, {}))
  /\ UNCHANGED <<run, reexec, trainCsv, validCsv, fs, ns,
                 df, classes, train_ds, data_lm, data_clas, learn, stdout>>

\* learn.load_encoder('ft_enc'): the learner's encoder becomes the saved one;
\* without the file the call raises and the learner keeps its encoder: the
\* exception ends the cell, and the kernel drops the cells queued behind it
LoadEncoder ==
  /\ At("load_encoder")
  /\ pc' = IF models.exists THEN pc + 1 ELSE Len(Program) + 1
  /\ learn' = IF models.exists THEN [learn EXCEPT !.enc = models.enc] ELSE learn
  /\ calls' = Append(calls, Call("load_encoder", Cur.cell, learn.kind, models.exists, FALSE, {}))
  /\ UNCHANGED <<run, reexec, trainCsv, validCsv, fs, models, ns,
                 df, classes, train_ds, data_lm, data_clas, stdout>>

\* The kernel is restarted and the notebook run again on the same folder.
Restart ==
  /\ ~Running
  /\ run < MaxRuns
  /\ pc' = 1
  /\ run' = run + 1
  /\ reexec' = 0
  /\ ns' = {}
  /\ df' = <<>>
  /\ classes' = <<>>
  /\ train_ds' = NoDataset
  /\ data_lm' = NoData
  /\ data_clas' = NoData
  /\ learn' = NoLearner
  /\ UNCHANGED <<trainCsv, validCsv, fs, models, stdout, calls>>

Next ==
  \/ Import
  \/ UntarData
  \/ Display
  \/ ReadCsv
  \/ ReadClasses
  \/ Cleanup
  \/ FromDf
  \/ ReexecuteFromDf
  \/ LmFromCsv
  \/ ClasFromCsv
  \/ LanguageModel
  \/ FitOneCycle
  \/ Unfreeze
  \/ SaveEncoder
  \/ Classifier
  \/ LoadEncoder
  \/ FreezeToStmt
  \/ Restart

Spec == Init /\ [][Next]_vars

(***************************************************************************)
(* Properties.                                                             *)
(***************************************************************************)
Last(s) == s[Len(s)]

\* a step in which the from_df line is executed (by the run or again by hand)
FromDfStep == Len(calls') = Len(calls) + 1 /\ Last(calls').what = "from_df"

FromDfDoneBefore == \E i \in DOMAIN calls : calls[i].what = "from_df"

\* C1 as stated: once from_df has been executed on the folder, tmp holds the
\* training set's tokens, labels, ids and the dictionary, and every later
\* execution of from_df on that folder loads them instead of preprocessing again.
C1_EveryLaterCallLoads ==
  [][FromDfStep =>
       /\ Stored(fs', "train")
       /\ (FromDfDoneBefore => ~Last(calls').preprocessed)]_vars

\* C1, amended: right after from_df tmp holds the training set's tokens,
\* labels, ids and the dictionary; an execution of from_df that finds all four
\* still in tmp loads them (it preprocesses nothing, prints nothing and leaves
\* tmp as it is), and one that finds any of them missing preprocesses again.
C1_LoadsWhileStored ==
  [][FromDfStep =>
       /\ Stored(fs', "train")
       /\ Last(calls').preprocessed = ~Stored(fs, "train")
       /\ (Stored(fs, "train") =>
             /\ fs' = fs
             /\ stdout' = stdout
             /\ train_ds'.ids = fs[IdFile("train")].data
             /\ train_ds'.vocab = fs[ItosFile].data)]_vars

\* C1 witness: from_df executed a second time, with the data still stored, loaded it.
C1_Witness ==
  \E i, j \in DOMAIN calls :
    /\ i < j
    /\ calls[i].what = "from_df" /\ calls[i].preprocessed
    /\ calls[j].what = "from_df" /\ calls[j].stored /\ ~calls[j].preprocessed

CsvKinds == {"lm_from_csv", "clas_from_csv"}

\* the TextDataset calls the from_csv cell of run r has made
CsvCalls(r) == SelectSeq(calls, LAMBDA c : c.run = r /\ c.what \in CsvKinds)

\* C2: the two from_csv calls run after from_df has preprocessed the training
\* set in the folder; each invokes TextDataset for train.csv and for valid.csv,
\* the training set is never preprocessed by them and only the validation set is.
C2_OnlyValidPreprocessed ==
  /\ \A i \in DOMAIN calls :
       calls[i].what \in CsvKinds =>
         /\ \E j \in 1..(i - 1) :
              calls[j].what = "from_df" /\ calls[j].run = calls[i].run /\ calls[j].preprocessed
         /\ calls[i].name = "train" => (calls[i].stored /\ ~calls[i].preprocessed)
  /\ "data_clas" \in ns =>
       LET c == CsvCalls(run)
       IN  /\ Len(c) = 4
           /\ <<c[1].what, c[1].name, c[1].preprocessed>> = <<"lm_from_csv", "train", FALSE>>
           /\ <<c[2].what, c[2].name, c[2].preprocessed>> = <<"lm_from_csv", "valid", TRUE>>
           /\ <<c[3].what, c[3].name, c[3].preprocessed>> = <<"clas_from_csv", "train", FALSE>>
           /\ <<c[4].what, c[4].name, c[4].preprocessed>> = <<"clas_from_csv", "valid", FALSE>>

\* C2 witness: both data bunches are built and the validation set was preprocessed.
C2_Witness ==
  /\ "data_clas" \in ns
  /\ \E i \in DOMAIN calls :
       calls[i].run = run /\ calls[i].what = "lm_from_csv"
         /\ calls[i].name = "valid" /\ calls[i].preprocessed

\* C3: data_clas uses the same dictionary as data_lm: every id maps to the
\* same word in both, for the training and for the validation set.
C3_SameDictionary ==
  "data_clas" \in ns =>
    /\ DOMAIN data_clas.train.vocab = DOMAIN data_lm.train.vocab
    /\ \A id \in DOMAIN data_lm.train.vocab :
         data_clas.train.vocab[id] = data_lm.train.vocab[id]
    /\ data_clas.valid.vocab = data_lm.valid.vocab
    /\ data_clas.valid.vocab = data_clas.train.vocab

\* C3 witness: the classifier data is built over a dictionary of several words.
C3_Witness == "data_clas" \in ns /\ Len(data_clas.train.vocab) > 2

\* whether HTML cell h shows notebook cell c
Mirrors(h, c) ==
  IF c.kind = "markdown"
  THEN h.kind = "text" /\ h.level = c.level /\ h.text = c.text /\ h.len = c.len
  ELSE /\ h.kind = "code"
       /\ h.out = c.out
       /\ IF h.hide THEN h.src = <<>> ELSE h.src = c.src

\* the cells a reader following the run has reached: up to the cell the kernel
\* is at, and all of them once the run is through
Reached == 1..(IF Running THEN Cur.cell ELSE Len(Cells))

\* C4: taken in document order, every cell of the HTML page shows the
\* notebook cell at the same place (its text, its input unless the page hides
\* it, its captured output), and every notebook cell has its cell in the page.
C4_HtmlMirrorsNotebook ==
  /\ Len(HtmlCells) = Len(Cells)
  /\ \A i \in Reached : i \in DOMAIN HtmlCells /\ Mirrors(HtmlCells[i], Cells[i])

\* C4 witness: the kernel is at a cell whose output the page shows too.
C4_Witness ==
  /\ Running
  /\ Cells[Cur.cell].out # <<>>
  /\ HtmlCells[Cur.cell].out = Cells[Cur.cell].out

\* the encoder of the language model of run r after its two fits
FineTunedEncoder(r) ==
  <<Weights("WT103", r, {}), Weights("fit", r, FreezeTo(-1)), Weights("fit", r, FreezeTo(0))>>

\* C5: the encoder load_encoder('ft_enc') gives the classifier is the encoder
\* of the language model saved after both of its fits (the frozen one and the
\* one after unfreeze); 'ft_enc' is written once in the run, before the load.
C5_LoadsFineTunedEncoder ==
  \A i \in DOMAIN calls :
    (calls[i].what = "load_encoder" /\ calls[i].run = run) =>
      /\ calls[i].stored
      /\ models = [exists |-> TRUE, enc |-> FineTunedEncoder(run)]
      /\ learn.kind = "clas"
      /\ Len(learn.enc) >= 3
      /\ SubSeq(learn.enc, 1, 3) = FineTunedEncoder(run)
      /\ Cardinality({j \in DOMAIN calls :
                        calls[j].what = "save_encoder" /\ calls[j].run = run}) = 1
      /\ \A j \in DOMAIN calls :
           (calls[j].what = "save_encoder" /\ calls[j].run = run) =>
             /\ j < i
             /\ calls[j].name = "lm"
             /\ Cardinality({k \in 1..(j - 1) :
                   calls[k].what = "fit" /\ calls[k].name = "lm" /\ calls[k].run = run}) = 2

\* C5 witness: a classifier has loaded 'ft_enc' where an older 'ft_enc' lay before.
C5_Witness ==
  /\ learn.kind = "clas"
  /\ \E i, j \in DOMAIN calls :
       /\ calls[i].what = "load_encoder" /\ calls[i].run = run
       /\ calls[j].what = "save_encoder" /\ calls[j].run = run /\ calls[j].stored

\* C6: after from_df every text of the data frame has its token list, the
\* tokenization of the text, and its id list, the numericalization of those tokens.
C6_TokensThenIds ==
  "train_ds" \in ns =>
    /\ fs[TokFile("train")].exists
    /\ fs[IdFile("train")].exists
    /\ DOMAIN fs[TokFile("train")].data = DOMAIN df
    /\ DOMAIN train_ds.ids = DOMAIN df
    /\ \A i \in DOMAIN df :
         /\ fs[TokFile("train")].data[i] = Tokenize(df[i].text)
         /\ train_ds.ids[i] = Numericalize(Tokenize(df[i].text), train_ds.vocab)
         /\ Len(train_ds.ids[i]) = Len(fs[TokFile("train")].data[i])
         /\ fs[IdFile("train")].data[i] = train_ds.ids[i]

\* C6 witness: from_df has preprocessed a data frame whose texts hold a word that repeats.
C6_Witness ==
  /\ "train_ds" \in ns
  /\ calls # <<>> /\ Last(calls).what = "from_df" /\ Last(calls).preprocessed
  /\ \E i \in DOMAIN train_ds.ids : train_ds.ids[i][1] = 1 /\ i > 1

\* the groups trained by the classifier fits of run r, in order
ClasFits(r) ==
  SelectSeq(calls, LAMBDA c : c.run = r /\ c.what = "fit" /\ c.name = "clas")

StepOf(st) ==
  CASE st.op = "import" -> (IF st.name = "fastai.gen_doc.nbdoc" THEN 0 ELSE 1)
    [] st.op \in {"untar_data", "read_csv", "read_classes", "display"} -> 1
    [] st.op \in {"cleanup", "from_df", "lm_from_csv", "clas_from_csv"} -> 2
    [] st.op = "language_model" -> 3
    [] st.op = "classifier" -> 4
    [] OTHER -> IF learn.kind = "lm" THEN 3 ELSE 4

\* C9: the headings of the quick start are its four steps in the order listed,
\* and every statement stands under the heading of the step it belongs to, so
\* that the code of a step comes after all code of the steps before it.
C9_StepsInOrder ==
  /\ Headings = StepList
  /\ Running =>
       /\ Section(Cur.cell) = StepOf(Cur.st)
       /\ \A p \in 1..(pc - 1) : Section(Program[p].cell) <= Section(Cur.cell)

\* C9 witness: the kernel is at a fit of the classifier, under the fourth heading.
C9_Witness ==
  /\ Running
  /\ Cur.st.op = "fit_one_cycle"
  /\ learn.kind = "clas"
  /\ Section(Cur.cell) = 4

\* the names the imports of the quick start bind (cell 8)
Imports == {"fastai", "fastai.text"}

\* The names a statement reads: the variables in its source line, and the
\* imports when it calls into the library.
Uses(st) ==
  CASE st.op = "import" -> {}
    [] st.op = "untar_data" -> Imports
    [] st.op = "display" -> {st.name}
    [] st.op \in {"read_csv", "read_classes", "cleanup", "lm_from_csv"} -> Imports \cup {"path"}
    [] st.op = "from_df" -> Imports \cup {"path", "df", "classes"}
    [] st.op = "clas_from_csv" -> Imports \cup {"path", "data_lm"}
    [] st.op = "language_model" -> Imports \cup {"data_lm"}
    [] st.op = "classifier" -> Imports \cup {"data_clas"}
    [] st.op \in {"fit_one_cycle", "unfreeze", "freeze_to", "save_encoder", "load_encoder"}
         -> {"learn"}

\* C11: run top to bottom, every statement reads only names that an earlier
\* statement or the imports have bound: path before df, classes and the data
\* bunches, df and classes before train_ds, data_lm before data_clas and the
\* language model, data_clas before the classifier, learn before its methods.
C11_NamesBoundBeforeUse == Running => Uses(Cur.st) \subseteq ns

\* C11 witness: the kernel is at the classifier data, which reads path and data_lm.
C11_Witness ==
  /\ Running
  /\ Cur.st.op = "clas_from_csv"
  /\ {"path", "data_lm"} \subseteq ns
  /\ "data_clas" \notin ns

\* the files the hidden cell names: ['train_tok.npy', 'valid_tok.npy']
TokenFiles == {TokFile("train"), TokFile("valid")}

\* C12: the hidden cleanup cell removes at most train_tok.npy and valid_tok.npy
\* from the tmp directory; after it neither of the two exists, whether or not
\* it existed before (an absent file is skipped, the cell still completes),
\* and every other cached file (_id.npy, _lbl.npy, itos.pkl) is unchanged.
C12_CleanupFrame ==
  /\ [][At("cleanup") =>
          /\ \A f \in Files \ TokenFiles : fs'[f] = fs[f]
          /\ \A f \in TokenFiles : ~fs'[f].exists
          /\ \A f \in Files : fs'[f].exists => fs[f].exists
          /\ pc' = pc + 1]_vars
  /\ [](At("cleanup") => ENABLED Cleanup)

\* C12 witness: in the second run the cleanup cell has just run; the token
\* files that the first run wrote are gone,
\* and the ids, the labels and the dictionary are still cached.
C12_Witness ==
  /\ run = 2
  /\ pc > 1
  /\ Program[pc - 1].st.op = "cleanup"
  /\ ~fs[TokFile("train")].exists
  /\ ~fs[TokFile("valid")].exists
  /\ fs[IdFile("train")].exists
  /\ fs[LblFile("valid")].exists
  /\ fs[ItosFile].exists

\* the lines with text t that run r has printed
Notes(r, t) == SelectSeq(stdout, LAMBDA e : e.run = r /\ e.text = t)

\* the text that cell c has printed in run r, line by line
PrintedIn(r, c) ==
  LET s == SelectSeq(stdout, LAMBDA e : e.run = r /\ e.cell = c)
  IN  [i \in DOMAIN s |-> s[i].text]

\* the code cells holding a statement with operation op
CellsOf(op) == {Program[p].cell : p \in {q \in DOMAIN Program : Program[q].st.op = op}}

\* the run has executed every statement of cell c
Passed(c) == Running => Cur.cell > c

\* C13: with the token files removed by the hidden cell, every run reports
\* "Numericalizing train." exactly once, in the from_df cell, and
\* "Numericalizing valid." exactly once, in the from_csv cell, although that
\* cell builds two data bunches; the lines are the cells' captured outputs.
C13_NumericalizedOncePerDataset ==
  /\ \A r \in 1..run :
       /\ Len(Notes(r, "Numericalizing train.")) = IF r < run \/ "train_ds" \in ns THEN 1 ELSE 0
       /\ Len(Notes(r, "Numericalizing valid.")) = IF r < run \/ "data_lm" \in ns THEN 1 ELSE 0
  /\ \A i \in DOMAIN stdout :
       /\ stdout[i].text = "Numericalizing train." => stdout[i].cell \in CellsOf("from_df")
       /\ stdout[i].text = "Numericalizing valid." =>
            stdout[i].cell \in CellsOf("lm_from_csv") \cap CellsOf("clas_from_csv")
  /\ \A c \in CellsOf("from_df") \cup CellsOf("lm_from_csv") \cup CellsOf("clas_from_csv") :
       Passed(c) => PrintedIn(run, c) = Cells[c].out

\* C13 witness: a second run, started on a tmp directory that the first run
\* filled, has built both data bunches and has printed each line once.
C13_Witness ==
  /\ run = 2
  /\ "data_clas" \in ns
  /\ Len(Notes(2, "Numericalizing train.")) = 1
  /\ Len(Notes(2, "Numericalizing valid.")) = 1
  /\ Len(CsvCalls(2)) = 4

\* The epoch number that a line of a captured fit output starts with, 0 when
\* the line is not a result row.
EpochOf(line) ==
  CASE line = "1      4.725450    4.224330    0.245299  (00:18)" -> 1
    [] line = "1      4.452540    4.139244    0.251466  (00:22)" -> 1
    [] line = "1      0.612591    0.585682    0.715000  (00:24)" -> 1
    [] line = "1      0.545209    0.526416    0.705000  (00:28)" -> 1
    [] line = "1      0.448358    0.569745    0.740000  (00:54)" -> 1
    [] OTHER -> 0

\* the columns of the table a fit prints
FitHeader == "epoch  train_loss  valid_loss  accuracy"

\* the epoch numbers of the result rows in the captured output of cell c
CapturedEpochs(c) ==
  LET rows == SelectSeq(Cells[c].out, LAMBDA l : EpochOf(l) > 0)
  IN  [i \in DOMAIN rows |-> EpochOf(rows[i])]

\* the epoch numbers of the result rows that cell c has logged in run r
LoggedEpochs(r, c) ==
  LET rows == SelectSeq(stdout, LAMBDA e : e.run = r /\ e.cell = c /\ e.text = "row")
  IN  [i \in DOMAIN rows |-> rows[i].epoch]

\* C14: every fit_one_cycle(1, ...), of the language model and of the
\* classifier, runs one epoch and logs one result row, numbered 1, under the
\* header epoch, train_loss, valid_loss, accuracy; the numbering restarts at 1
\* on each call, in the run as in the captured outputs of the notebook.
C14_OneEpochNumberedOne ==
  \A i \in DOMAIN calls :
    calls[i].what = "fit" =>
      LET r == calls[i].run
          c == calls[i].cell
      IN  /\ \A p \in DOMAIN Program :
               (Program[p].cell = c /\ Program[p].st.op = "fit_one_cycle") => Program[p].st.n = 1
          /\ LoggedEpochs(r, c) = <<1>>
          /\ Len(Notes(r, FitHeader)) = Len(SelectSeq(calls, LAMBDA d : d.run = r /\ d.what = "fit"))
          /\ CapturedEpochs(c) = LoggedEpochs(r, c)
          /\ Len(PrintedIn(r, c)) = Len(Cells[c].out)
          /\ PrintedIn(r, c)[2] = Cells[c].out[2]
          /\ EpochOf(Cells[c].out[3]) = 1
          /\ FitHeader \in Range(Cells[c].out)

\* C14 witness: a run has finished all five fits, three of them by the
\* classifier after two by the language model, and has logged five rows.
C14_Witness ==
  /\ ~Running
  /\ Len(SelectSeq(calls, LAMBDA d : d.run = run /\ d.what = "fit" /\ d.name = "lm")) = 2
  /\ Len(SelectSeq(calls, LAMBDA d : d.run = run /\ d.what = "fit" /\ d.name = "clas")) = 3
  /\ Len(SelectSeq(stdout, LAMBDA e : e.run = run /\ e.text = "row" /\ e.epoch = 1)) = 5

\* what run r has done to the language-model learner, in order
LmEvents(r) ==
  SelectSeq(calls, LAMBDA c : /\ c.run = r
                              /\ c.name = "lm"
                              /\ c.what \in {"fit", "unfreeze", "freeze_to", "save_encoder"})

\* the fine-tuning of the language model: what is called, and the layer groups
\* that are trainable in it
LmFineTuning ==
  << <<"fit", FreezeTo(-1)>>, <<"unfreeze", Groups>>, <<"fit", Groups>>, <<"save_encoder", {}>> >>

\* C15: the language model is fine-tuned in the freeze order of the
\* classifier: the first fit runs on the learner as created from the
\* pretrained weights, frozen up to its last group; unfreeze() is called once;
\* the second fit and save_encoder come after it, and no freeze_to comes
\* before the encoder is saved.  Its first and last fit train the groups the
\* classifier's first and last fit train.
C15_LmFreezeOrder ==
  \A r \in 1..run :
    LET e == LmEvents(r)
    IN  /\ Len(e) <= Len(LmFineTuning)
        /\ \A k \in DOMAIN e :
             e[k].what = LmFineTuning[k][1] /\ e[k].trainable = LmFineTuning[k][2]
        /\ r < run => Len(e) = Len(LmFineTuning)
        /\ (r = run /\ Len(e) = Len(LmFineTuning)) => models.enc = FineTunedEncoder(r)
        /\ Len(ClasFits(r)) = 3 =>
             /\ ClasFits(r)[1].trainable = e[1].trainable
             /\ ClasFits(r)[3].trainable = e[3].trainable

\* C15 witness: the language model has just saved its encoder, after a frozen
\* fit, one unfreeze and a second fit.
C15_Witness ==
  /\ Running
  /\ learn.kind = "lm"
  /\ Len(LmEvents(run)) = 4
  /\ LmEvents(run)[2].what = "unfreeze"
  /\ models = [exists |-> TRUE, enc |-> FineTunedEncoder(run)]
====
